---------------------------- MODULE Spec2Model ----------------------------
(***************************************************************************)
(* Model of the two programs of the repository:                            *)
(*   consecutive_drop_analysis.py  the live scorer and the virtual         *)
(*                                  position ledger (virtual_portfolio.csv)*)
(*   backtest_engine.py            the historical replay of the scorer     *)
(*                                                                         *)
(* Conventions.                                                            *)
(*   - A pandas float cell is a record [nan, v]: NaN compares False with   *)
(*     everything, as in pandas/numpy.                                     *)
(*   - Prices are integers in units of 0.001, so round(x, 3) is exact.     *)
(*   - '当前收益%' is kept in hundredths of a percent (round(x, 2)).       *)
(*   - A date 'YYYY-MM-DD' is its day number; string equality of two       *)
(*     dates is equality of the day numbers and strptime differences are   *)
(*     differences of the day numbers.                                     *)
(*   - An instrument code cell records its Python type: the scorer yields  *)
(*     the str '510300', read_csv yields the int 510300.                   *)
(***************************************************************************)
EXTENDS Integers, Sequences, FiniteSets, TLC

VARIABLES
    day,          \* today's date (day number of the newest bar in fund_data)
    data,         \* fund_data/*.csv: file name -> content of the file
    ledgerFile,   \* virtual_portfolio.csv
    reportFile,   \* investment_decision.csv
    pc,           \* position of main() of consecutive_drop_analysis.py
    task,         \* executor.map: file name -> "pending" | "done"
    taskResult,   \* file name -> what analyze_single_file returned
    collected,    \* how many results the for loop of main() has consumed
    results,      \* the list `results` of main()
    admitTrace,   \* history: the values of df_p through the admission loop
    stopLoss,     \* history: per ledger row, the 建议止损价 of its signal
    snap,         \* scorer check: the snapshot handed to the live scorer
    scored,       \* scorer check: what the live scorer returned for snap
    btRow,        \* scorer check: the bar handed to the backtest scorer
    btScored,     \* scorer check: the backtest score of btRow
    bars,         \* backtest: the data frame df of one instrument, ascending
    btPc,         \* backtest: position of run_single_backtest
    trades        \* backtest: the list `trades` it returns

vars == <<day, data, ledgerFile, reportFile, pc, task, taskResult, collected,
          results, admitTrace, stopLoss, snap, scored, btRow, btScored,
          bars, btPc, trades>>

liveVars == <<day, data, ledgerFile, reportFile, pc, task, taskResult,
              collected, results, admitTrace, stopLoss>>
scoreVars == <<snap, scored, btRow, btScored>>
backtestVars == <<bars, btPc, trades>>

---------------------------------------------------------------------------
(* Program constants.                                                      *)

MIN_TURNOVER == 5000000
MIN_SCORE_SIGNAL == 65

(* Bounds of the model.                                                    *)
MaxDay == 3     \* trading days the download job delivers
MaxRows == 1    \* rows of the ledger a single checked run starts from

---------------------------------------------------------------------------
(* pandas float cells.                                                     *)

NaN == [nan |-> TRUE, v |-> 0]
Num(x) == [nan |-> FALSE, v |-> x]

\* a < k, a > k for a cell a and a number k: False when a is NaN.
LtNaNAsZero(a, k) == IF a.nan THEN 0 < k ELSE a.v < k
Lt(a, k) == ~a.nan /\ a.v < k
Gt(a, k) == ~a.nan /\ a.v > k
\* a > b for two cells.
GtCell(a, b) == ~a.nan /\ ~b.nan /\ a.v > b.v

\* round(num/den) to the nearest integer, ties to even (Python's round).
RoundHalfEven(num, den) ==
    LET q == num \div den
        r == num - q * den
    IN  IF 2 * r < den THEN q
        ELSE IF 2 * r > den THEN q + 1
        ELSE IF q % 2 = 0 THEN q ELSE q + 1

---------------------------------------------------------------------------
(* The live scorer: analyze_single_file, from the snapshot on.             *)
(* A snapshot is the newest row `last` of calculate_tech's frame plus the  *)
(* J of the row before it (`prev`).                                        *)

NoSignal == [type |-> "none"]

ScoreOversold(s) ==
    (IF Lt(s.rsi, 38) THEN 35 ELSE 0)
  + (IF Lt(s.j, 10) THEN 35 ELSE 0)
  + (IF Lt(s.bias, -3) THEN 30 ELSE 0)

IsStrongTrend(s) == Gt(s.rsi, 65) /\ ~s.ma5.nan /\ s.close > s.ma5.v

\* Lines 117-148: the category, its score and its stop-loss price, or None.
AnalyzeSnapshot(s) ==
    IF s.turnover < MIN_TURNOVER THEN NoSignal
    ELSE IF ScoreOversold(s) >= MIN_SCORE_SIGNAL /\ GtCell(s.j, s.prevJ)
    THEN [type |-> "oversold_rebound", score |-> ScoreOversold(s),
          stop |-> Num(s.low), price |-> s.close]
    ELSE IF Gt(s.rsi, 80)
    THEN [type |-> "extreme_overbought", score |-> -20,
          stop |-> s.ma5, price |-> s.close]
    ELSE IF IsStrongTrend(s)
    THEN [type |-> "trend_rally", score |-> 65,
          stop |-> s.ma5, price |-> s.close]
    ELSE NoSignal

---------------------------------------------------------------------------
(* fund_data: the input files.                                             *)

\* The names fund_data can hold, in the order glob lists them.  The download
\* job keeps one file per instrument; "510300_old.csv" is a copy somebody
\* left beside them, which the job never rewrites.
FileList == <<"510300.csv", "159915.csv", "510300_old.csv">>
Files == {FileList[k] : k \in 1..Len(FileList)}
Downloaded == {"510300.csv", "159915.csv"}

\* re.search(r'(\d{6})', basename).group(1), as the number the digits spell.
CodeOf(f) == IF f = "159915.csv" THEN 159915 ELSE 510300
Codes == {CodeOf(f) : f \in Files}

StrCode(n) == [ty |-> "str", n |-> n]    \* the str '510300'
IntCode(n) == [ty |-> "int", n |-> n]    \* the int 510300
TxtCode(n) == [ty |-> "txt", n |-> n]    \* the digits in a csv file

\* The snapshots the market model draws: thresholds of the scorer straddled.
MkSnap(rsi, j, prevJ, bias, close, ma5, low) ==
    [rsi |-> rsi, j |-> j, prevJ |-> prevJ, bias |-> bias, close |-> close,
     ma5 |-> ma5, low |-> low, turnover |-> 6000000]

Oversold(c) == MkSnap(Num(30), Num(5), Num(3), Num(-4), c, Num(c + 500), c - 1000)
Trend(c) == MkSnap(Num(70), Num(60), Num(50), Num(2), c, Num(c - 500), c - 200)
Overbought(c) == MkSnap(Num(85), Num(90), Num(80), Num(5), c, Num(c - 500), c - 200)
Quiet(c) == MkSnap(Num(50), Num(50), Num(50), Num(0), c, Num(c), c - 200)

\* What one file can hold after a day's download:
\*   kind "ok"     at least 40 well-formed rows, ascending by date
\*   kind "short"  well-formed, fewer than 40 rows, at least one
\*   kind "bad"    unreadable or malformed (read_csv, a column access or
\*                 strptime raises)
\*   kind "absent" no such file in fund_data
OkFile(s, d) == [kind |-> "ok", date |-> d, snap |-> s]
ShortFile(c, d) == [kind |-> "short", date |-> d, snap |-> Quiet(c)]
BadFile(d) == [kind |-> "bad", date |-> d, snap |-> Quiet(10000)]
NoFile == [kind |-> "absent", date |-> 0, snap |-> Quiet(10000)]

\* glob.glob(os.path.join(DATA_DIR, "*.csv")), lines 84 and 153.
GlobFiles(files) == SelectSeq(FileList, LAMBDA f : files[f].kind # "absent")

\* The contents the model draws for a file whose newest bar is of day d.
FileStates(d) ==
    {OkFile(Oversold(10000), d), OkFile(Quiet(8800), d),
     OkFile(Trend(10000), d), OkFile(Overbought(10000), d),
     ShortFile(8800, d), BadFile(d)}

\* analyze_single_file(file_info): None for a short file (line 111) and for
\* anything that raises (line 149).
AnalyzeSingleFile(f, file) ==
    IF file.kind # "ok" THEN NoSignal
    ELSE LET r == AnalyzeSnapshot(file.snap)
         IN  IF r = NoSignal THEN NoSignal
             ELSE [code |-> StrCode(CodeOf(f)), type |-> r.type,
                   score |-> r.score, stop |-> r.stop, price |-> r.price,
                   date |-> file.date]

---------------------------------------------------------------------------
(* virtual_portfolio.csv and update_portfolio.                             *)

AbsentFile == [exists |-> FALSE, rows |-> <<>>]
CsvFile(rows) == [exists |-> TRUE, rows |-> rows]

\* DataFrame.to_csv / pd.read_csv on the ledger: the code column is written
\* as its digits and read back as an int64; the other columns round-trip.
ToCsvRow(r) == [r EXCEPT !.code = TxtCode(r.code.n)]
ReadCsvRow(r) == [r EXCEPT !.code = IntCode(r.code.n)]
ToCsv(df) == CsvFile([i \in 1..Len(df) |-> ToCsvRow(df[i])])
ReadCsv(file) == [i \in 1..Len(file.rows) |-> ReadCsvRow(file.rows[i])]

\* Lines 65-68.
LoadLedger(file) == IF file.exists THEN ReadCsv(file) ELSE <<>>

\* df_p['代码'] == int(s['代码']) for one cell: a str cell never equals an int.
CodeEqInt(cell, n) == cell.ty = "int" /\ cell.n = n

\* Line 74: a row with this code and this entry date is already there.
SameDayRecorded(df, s) ==
    \E i \in 1..Len(df) : CodeEqInt(df[i].code, s.code.n) /\ df[i].date = s.date

\* Lines 75-79.
NewRow(s) ==
    [code |-> s.code, date |-> s.date, buy |-> s.price, cur |-> s.price,
     days |-> 0, ret |-> 0, sig |-> s.type]

AdmitsStrictlyAbove(s) == s.score > MIN_SCORE_SIGNAL
\* Line 72.
Admits(s) == s.score >= MIN_SCORE_SIGNAL

\* Lines 72-80: one iteration of the admission loop.
AdmitOne(df, s) ==
    IF Admits(s) /\ ~SameDayRecorded(df, s) THEN Append(df, NewRow(s)) ELSE df

\* Lines 71-80: the values of df_p before the loop and after each iteration.
RECURSIVE AdmitTrace(_, _)
AdmitTrace(df, sigs) ==
    IF sigs = <<>> THEN <<df>>
    ELSE <<df>> \o AdmitTrace(AdmitOne(df, Head(sigs)), Tail(sigs))

\* The 建议止损价 of the signals the loop admitted, in the order of their rows.
RECURSIVE AdmittedStops(_, _)
AdmittedStops(df, sigs) ==
    IF sigs = <<>> THEN <<>>
    ELSE (IF AdmitOne(df, Head(sigs)) # df THEN <<Head(sigs).stop>> ELSE <<>>)
         \o AdmittedStops(AdmitOne(df, Head(sigs)), Tail(sigs))

\* Line 87: the files whose path contains the zero-filled code, glob order.
TargetFiles(n, files) == SelectSeq(GlobFiles(files), LAMBDA f : CodeOf(f) = n)

\* Lines 89-100 for one row whose data file is `file`.
RefreshRow(row, file) ==
    [row EXCEPT !.cur = file.snap.close,
                !.days = file.date - row.date,
                !.ret = RoundHalfEven((file.snap.close - row.buy) * 10000,
                                      row.buy)]

\* Lines 85-100 from row idx on: [raised, df].  Reading a bad file raises,
\* and nothing catches it in update_portfolio.
RECURSIVE RefreshFrom(_, _, _)
RefreshFrom(df, idx, files) ==
    IF idx > Len(df) THEN [raised |-> FALSE, df |-> df]
    ELSE LET target == TargetFiles(df[idx].code.n, files)
         IN  IF target = <<>> THEN RefreshFrom(df, idx + 1, files)
             ELSE IF files[target[1]].kind = "bad"
             THEN [raised |-> TRUE, df |-> df]
             ELSE RefreshFrom([df EXCEPT ![idx] =
                                 RefreshRow(df[idx], files[target[1]])],
                              idx + 1, files)

\* update_portfolio(new_signals): what it leaves in the ledger file and
\* whether it returned (raised = FALSE) or let an exception out.
UpdatePortfolio(file, sigs, files) ==
    LET loaded == LoadLedger(file)
        trace == AdmitTrace(loaded, sigs)
        admitted == trace[Len(trace)]
        refreshed == RefreshFrom(admitted, 1, files)
    IN  [raised |-> refreshed.raised,
         file |-> IF refreshed.raised THEN file ELSE ToCsv(refreshed.df),
         trace |-> trace,
         stops |-> AdmittedStops(loaded, sigs)]

---------------------------------------------------------------------------
(* main() of consecutive_drop_analysis.py, one run after another, and the  *)
(* daily download that rewrites fund_data between two runs.                *)

SomeResultCollected == collected >= 1 \/ GlobFiles(data) = <<>>
\* Lines 158-160: executor.map has yielded every result, so every task has
\* finished, and the with block has been left.
ScoringComplete == collected = Len(GlobFiles(data))

\* DataFrame(results).sort_values(by='综合评分', ascending=False), lines
\* 163-168: insertion of each result behind the results that score at least
\* as much.
RECURSIVE SortByScore(_)
SortByScore(rs) ==
    IF rs = <<>> THEN <<>>
    ELSE LET rest == SortByScore(Tail(rs))
             ahead == SelectSeq(rest, LAMBDA r : r.score > Head(rs).score)
             behind == SelectSeq(rest, LAMBDA r : r.score <= Head(rs).score)
         IN  ahead \o <<Head(rs)>> \o behind

NoRunState ==
    /\ task = [f \in Files |-> "none"]
    /\ taskResult = [f \in Files |-> NoSignal]
    /\ collected = 0
    /\ results = <<>>

\* The download job: a new trading day, every file rewritten.
NewBars ==
    /\ pc = "idle"
    /\ day < MaxDay
    /\ day' = day + 1
    /\ \E new \in [Downloaded -> FileStates(day + 1)] :
          data' = [f \in Files |-> IF f \in Downloaded THEN new[f] ELSE data[f]]
    /\ UNCHANGED <<ledgerFile, reportFile, pc, task, taskResult, collected,
                   results, admitTrace, stopLoss>>
    /\ UNCHANGED <<scoreVars, backtestVars>>

\* Lines 152-158: the tasks are submitted to the pool.
StartRun ==
    /\ pc = "idle"
    /\ pc' = "scoring"
    /\ task' = [f \in Files |->
                   IF data[f].kind = "absent" THEN "none" ELSE "pending"]
    /\ taskResult' = [f \in Files |-> NoSignal]
    /\ collected' = 0
    /\ results' = <<>>
    /\ UNCHANGED <<day, data, ledgerFile, reportFile, admitTrace, stopLoss>>
    /\ UNCHANGED <<scoreVars, backtestVars>>

\* A worker process runs analyze_single_file on one file; the workers
\* finish in any order.
TaskRun(f) ==
    /\ pc = "scoring"
    /\ task[f] = "pending"
    /\ task' = [task EXCEPT ![f] = "done"]
    /\ taskResult' = [taskResult EXCEPT ![f] = AnalyzeSingleFile(f, data[f])]
    /\ UNCHANGED <<day, data, ledgerFile, reportFile, pc, collected, results,
                   admitTrace, stopLoss>>
    /\ UNCHANGED <<scoreVars, backtestVars>>

\* Lines 159-160: executor.map yields the results in the order of the tasks.
Collect ==
    /\ pc = "scoring"
    /\ collected < Len(GlobFiles(data))
    /\ task[GlobFiles(data)[collected + 1]] = "done"
    /\ collected' = collected + 1
    /\ results' = IF taskResult[GlobFiles(data)[collected + 1]] = NoSignal
                  THEN results
                  ELSE Append(results, taskResult[GlobFiles(data)[collected + 1]])
    /\ UNCHANGED <<day, data, ledgerFile, reportFile, pc, task, taskResult,
                   admitTrace, stopLoss>>
    /\ UNCHANGED <<scoreVars, backtestVars>>

\* Lines 162-168: the decision report, written also when results is empty.
WriteReport ==
    /\ pc = "scoring"
    /\ ScoringComplete
    /\ reportFile' = CsvFile(SortByScore(results))
    /\ pc' = "ledger"
    /\ UNCHANGED <<day, data, ledgerFile, task, taskResult, collected,
                   results, admitTrace, stopLoss>>
    /\ UNCHANGED <<scoreVars, backtestVars>>

\* Line 171: update_portfolio(results); an exception it lets out ends the
\* run with a traceback.
UpdateLedger ==
    /\ pc = "ledger"
    /\ LET out == UpdatePortfolio(ledgerFile, results, data)
       IN  /\ ledgerFile' = out.file
           /\ admitTrace' = out.trace
           /\ stopLoss' = IF out.raised THEN stopLoss
                          ELSE stopLoss \o out.stops
           /\ pc' = IF out.raised THEN "crashed" ELSE "done"
    /\ UNCHANGED <<day, data, reportFile, task, taskResult, collected, results>>
    /\ UNCHANGED <<scoreVars, backtestVars>>

\* The process of the run ends, normally or with the traceback.
ExitRun ==
    /\ pc \in {"done", "crashed"}
    /\ pc' = "idle"
    /\ task' = [f \in Files |-> "none"]
    /\ taskResult' = [f \in Files |-> NoSignal]
    /\ collected' = 0
    /\ results' = <<>>
    /\ admitTrace' = <<>>
    /\ UNCHANGED <<day, data, ledgerFile, reportFile, stopLoss>>
    /\ UNCHANGED <<scoreVars, backtestVars>>

ScoreIdle ==
    /\ snap = Quiet(10000)
    /\ scored = NoSignal
    /\ btRow = <<>>
    /\ btScored = NoSignal

BacktestIdle ==
    /\ bars = <<>>
    /\ btPc = "idle"
    /\ trades = <<>>

\* The state both day-by-day specifications start from, but for fund_data.
InitLive ==
    /\ day = 1
    /\ ledgerFile \in {AbsentFile, CsvFile(<<>>)}
    /\ reportFile = AbsentFile
    /\ pc = "idle"
    /\ NoRunState
    /\ admitTrace = <<>>
    /\ stopLoss = <<>>
    /\ ScoreIdle
    /\ BacktestIdle

\* fund_data as the download job keeps it: one file per instrument.
Init ==
    /\ data \in {d \in [Files -> FileStates(1) \cup {NoFile}] :
                   \A f \in Files : d[f] = NoFile <=> f \notin Downloaded}
    /\ InitLive

Next ==
    \/ NewBars
    \/ StartRun
    \/ \E f \in Files : TaskRun(f)
    \/ Collect
    \/ WriteReport
    \/ UpdateLedger
    \/ ExitRun

Spec == Init /\ [][Next]_vars

\* The same program and download job with the copy "510300_old.csv" in
\* fund_data.
InitCopy ==
    /\ data \in [Files -> FileStates(1)]
    /\ InitLive

NextCopy ==
    \/ NewBars
    \/ StartRun
    \/ \E f \in Files : TaskRun(f)
    \/ Collect
    \/ WriteReport
    \/ UpdateLedger
    \/ ExitRun

SpecCopy == InitCopy /\ [][NextCopy]_vars

---------------------------------------------------------------------------
(* One run of main() from any ledger of at most MaxRows rows and any       *)
(* content of fund_data.                                                   *)

\* The rows earlier runs can have left in virtual_portfolio.csv.
LedgerRows ==
    {[code |-> TxtCode(c), date |-> d, buy |-> b, cur |-> b, days |-> 0,
      ret |-> 0, sig |-> "oversold_rebound"] :
        c \in Codes, d \in 1..MaxDay, b \in {10000}}

RECURSIVE SeqsUpTo(_, _)
SeqsUpTo(S, n) ==
    IF n = 0 THEN {<<>>}
    ELSE SeqsUpTo(S, n - 1) \cup
         {Append(q, x) : q \in SeqsUpTo(S, n - 1), x \in S}

InitRun ==
    /\ day = MaxDay
    /\ data \in {d \in [Files -> FileStates(MaxDay) \cup {NoFile}] :
                   \A f \in Downloaded : d[f] # NoFile}
    /\ ledgerFile \in {AbsentFile} \cup {CsvFile(q) : q \in SeqsUpTo(LedgerRows, MaxRows)}
    /\ stopLoss = [i \in 1..Len(ledgerFile.rows) |-> Num(ledgerFile.rows[i].buy - 1000)]
    /\ reportFile = AbsentFile
    /\ pc = "idle"
    /\ NoRunState
    /\ admitTrace = <<>>
    /\ ScoreIdle
    /\ BacktestIdle

NextRun ==
    \/ StartRun
    \/ \E f \in Files : TaskRun(f)
    \/ Collect
    \/ WriteReport
    \/ UpdateLedger
    \/ ExitRun

SpecRun == InitRun /\ [][NextRun]_vars

---------------------------------------------------------------------------
(* The claims about the ledger and about main().                           *)

Ledger == ledgerFile.rows

\* The ledger has no status column (line 66) and exempts no row from the
\* refresh (line 85): every row is an Open position.
Status(row) == "Open"

RowsOf(df, n) == {i \in 1..Len(df) : df[i].code.n = n}
OpenRowsOf(df, n) == {i \in RowsOf(df, n) : Status(df[i]) = "Open"}

\* C1: after any sequence of runs the ledger holds at most one Open position
\* per instrument code, also when a signal for the code is admitted by two
\* consecutive runs on different snapshot dates.
OneOpenPositionPerCode ==
    \A c \in Codes : Cardinality(OpenRowsOf(Ledger, c)) <= 1

\* The latest price a refresh wrote into row i is below the stop-loss price
\* of the signal that opened the position.
StopBreached(i) == Gt(stopLoss[i], Ledger[i].cur)

\* C2: once a refresh has found a position's latest price below its
\* stopLossPrice, no later refresh changes the position's currentPrice,
\* holdingDays or currentReturnPercent.
FrozenOnceStoppedOut ==
    [][\A i \in 1..Len(Ledger) :
          StopBreached(i) =>
              /\ ledgerFile'.rows[i].cur = Ledger[i].cur
              /\ ledgerFile'.rows[i].days = Ledger[i].days
              /\ ledgerFile'.rows[i].ret = Ledger[i].ret]_vars

\* C5: no instrument's failure is fatal to a run: every run completes and
\* has written both the decision report and the ledger file.
NoFailureIsFatal ==
    pc \in {"done", "crashed"} =>
        pc = "done" /\ reportFile.exists /\ ledgerFile.exists

NoTaskPending == \A f \in Files : task[f] # "pending"
AllResultsCollected ==
    /\ collected = Cardinality({f \in Files : task[f] # "none"})
    /\ \A f \in Files :
          (task[f] = "done" /\ taskResult[f] # NoSignal) =>
              \E k \in 1..Len(results) : results[k] = taskResult[f]

\* C6: the load, admit, refresh and persist of the ledger happen in one step
\* of the run, and only after every scoring task has completed and its result
\* has been collected, whatever the order the tasks completed in.
LedgerCycleAfterScoring ==
    /\ [](pc = "ledger" => NoTaskPending /\ AllResultsCollected)
    /\ [][(ledgerFile' # ledgerFile \/ (admitTrace' # admitTrace /\ admitTrace' # <<>>))
            => /\ pc = "ledger" /\ pc' \in {"done", "crashed"}
               /\ NoTaskPending /\ AllResultsCollected
               /\ (pc' = "done" => ledgerFile'.exists)]_vars

\* The ledger cycle of a run with three scoring tasks has run and persisted.
LedgerCycleRan ==
    /\ pc = "done"
    /\ \A f \in Files : task[f] = "done"
    /\ Len(results) >= 2
    /\ Len(Ledger) >= 2

\* Iteration k of the admission loop, for the claim about admission.
AdmissionStepOk(k) ==
    LET s == results[k]
        before == admitTrace[k]
        after == admitTrace[k + 1]
        new == after[Len(after)]
    IN  /\ (s.score >= MIN_SCORE_SIGNAL /\ OpenRowsOf(before, s.code.n) = {}) =>
              /\ Len(after) = Len(before) + 1
              /\ SubSeq(after, 1, Len(before)) = before
              /\ Cardinality(OpenRowsOf(after, s.code.n)) = 1
              /\ new.code.n = s.code.n
              /\ new.date = s.date
              /\ new.buy = s.price
              /\ new.cur = s.price
              /\ new.ret = 0
              /\ new.days = 0
        /\ s.score < MIN_SCORE_SIGNAL => after = before

\* C7: admitting a signal whose score is at or above the admission threshold
\* into a ledger with no Open position for its code creates exactly one new
\* Open position, entered at the signal's price, with currentPrice equal to
\* it and return 0 before the refresh; a signal below the threshold creates
\* no position.
AdmissionCreatesOnePosition ==
    admitTrace # <<>> =>
        /\ Len(admitTrace) = Len(results) + 1
        /\ \A k \in 1..Len(results) : AdmissionStepOk(k)

\* A run admitted a signal that scores exactly the threshold into a ledger
\* without a position for its code, and passed over one below the threshold.
AdmittedAtThreshold ==
    /\ pc = "done"
    /\ admitTrace # <<>>
    /\ \E k \in 1..Len(results) :
          /\ results[k].score = MIN_SCORE_SIGNAL
          /\ OpenRowsOf(admitTrace[k], results[k].code.n) = {}
          /\ Len(admitTrace[k + 1]) = Len(admitTrace[k]) + 1
    /\ \E k \in 1..Len(results) : results[k].score < MIN_SCORE_SIGNAL

\* C10: after any sequence of runs from an absent or empty ledger file, no
\* two ledger rows share the same instrument code and entry date.
NoDuplicateCodeAndDate ==
    \A i, j \in 1..Len(Ledger) :
        (i < j /\ Ledger[i].code.n = Ledger[j].code.n) =>
            Ledger[i].date # Ledger[j].date

---------------------------------------------------------------------------
(* backtest_engine.py.                                                     *)
(* A computed indicator is an exact ratio: [nan, inf, num, den], den > 0.  *)
(* Row i of the code (0-based, iloc[i]) is element i + 1 of a sequence.    *)

HOLD_DAYS == <<3, 5, 10>>
MIN_SCORE_THRESHOLD == 90
MIN_BARS == 260
FIRST_BAR == 30

Q(num, den) == [nan |-> FALSE, inf |-> FALSE, num |-> num, den |-> den]
QNaN == [nan |-> TRUE, inf |-> FALSE, num |-> 0, den |-> 1]
QInf == [nan |-> FALSE, inf |-> TRUE, num |-> 0, den |-> 1]

\* a < p/q for a computed cell a (q > 0): False for NaN and for +inf.
QLt(a, p, q) == ~a.nan /\ ~a.inf /\ a.num * q < p * a.den

Iloc(df, i) == df[i + 1]

RECURSIVE SumSeq(_)
SumSeq(q) == IF q = <<>> THEN 0 ELSE Head(q) + SumSeq(Tail(q))

Max2(a, b) == IF a >= b THEN a ELSE b
MaxOfSeq(q) == CHOOSE m \in {q[k] : k \in 1..Len(q)} : \A k \in 1..Len(q) : q[k] <= m

\* Lines 20-23.  delta.where(delta > 0, 0) turns the NaN of the first row
\* into 0, so the 14-bar means exist from row 13 on.
Delta(df, k) == IF k = 0 THEN 0 ELSE Iloc(df, k).close - Iloc(df, k - 1).close
Rsi(df, i) ==
    IF i < 13 THEN QNaN
    ELSE LET gain == SumSeq([n \in 1..14 |-> Max2(Delta(df, i - 14 + n), 0)])
             loss == SumSeq([n \in 1..14 |-> Max2(-Delta(df, i - 14 + n), 0)])
         IN  IF gain = 0 /\ loss = 0 THEN QNaN       \* 0/0
             ELSE Q(100 * gain, gain + loss)          \* 100 - 100/(1 + gain/loss)

\* Lines 34-35: (close - MA5) / MA5 * 100.
Bias(df, i) ==
    IF i < 4 THEN QNaN
    ELSE LET sum5 == SumSeq([n \in 1..5 |-> Iloc(df, i - 5 + n).close])
         IN  Q((5 * Iloc(df, i).close - sum5) * 100, sum5)

\* Line 36: 5 * V_MA5, the volumes of the five bars before bar i.
VolSum5(df, i) == SumSeq([n \in 1..5 |-> Iloc(df, i - 6 + n).volume])

\* Lines 36-37 (and lines 58-59 of consecutive_drop_analysis.py): a float
\* division, x/0 is inf and 0/0 is NaN.
VolRatio(df, i) ==
    IF i < 5 THEN QNaN
    ELSE IF VolSum5(df, i) = 0
    THEN (IF Iloc(df, i).volume = 0 THEN QNaN ELSE QInf)
    ELSE Q(5 * Iloc(df, i).volume, VolSum5(df, i))

\* Line 38: pct_change(250) * 100.
YChg(df, i) ==
    IF i < 250 THEN QNaN
    ELSE Q((Iloc(df, i).close - Iloc(df, i - 250).close) * 100,
           Iloc(df, i - 250).close)

\* calculate_backtest_indicators: the frame with its computed columns.  The
\* J column of the KDJ recursion (lines 26-31) is taken from the input.
CalculateBacktestIndicators(df) ==
    [k \in 1..Len(df) |->
        [date |-> df[k].date, close |-> df[k].close, low |-> df[k].low,
         pct |-> df[k].pct, turnover |-> df[k].turnover,
         volume |-> df[k].volume, j |-> df[k].j,
         rsi |-> Rsi(df, k - 1), bias |-> Bias(df, k - 1),
         vr |-> VolRatio(df, k - 1), ychg |-> YChg(df, k - 1)]]

\* What lines 55-74 read of row i: the row and the 涨跌幅 of rows i, i-1, i-2.
RowView(df, i) ==
    [pcts |-> <<Iloc(df, i).pct, Iloc(df, i - 1).pct, Iloc(df, i - 2).pct>>,
     rsi |-> Iloc(df, i).rsi, j |-> Iloc(df, i).j, ychg |-> Iloc(df, i).ychg,
     bias |-> Iloc(df, i).bias, vr |-> Iloc(df, i).vr,
     turnover |-> Iloc(df, i).turnover]

\* Lines 58-68.
BtScore(r) ==
    (IF \A n \in 1..3 : Lt(r.pcts[n], 0) THEN 20 ELSE 0)
  + (IF QLt(r.rsi, 30, 1) THEN 20 ELSE 0)
  + (IF Lt(r.j, 0) THEN 20 ELSE 0)
  + (IF QLt(r.ychg, -15, 1) THEN 20 ELSE 0)
  + (IF QLt(r.bias, -5, 2) THEN 20 ELSE 0)

\* Line 71: VOL_RATIO < VOL_RATIO_LIMIT (0.7).
IsVolumeShrink(r) == QLt(r.vr, 7, 10)

\* Lines 55-74: the score of a row and whether it triggers a buy.
BtEvaluate(r) ==
    IF r.turnover < MIN_TURNOVER THEN [score |-> 0, buy |-> FALSE]
    ELSE [score |-> BtScore(r),
          buy |-> BtScore(r) >= MIN_SCORE_THRESHOLD /\ IsVolumeShrink(r)]

\* Lines 78-79: round((sell_price - buy_price) / buy_price * 100, 2), in
\* hundredths of a percent.
HoldReturn(df, i, d) ==
    RoundHalfEven((Iloc(df, i + d).close - Iloc(df, i).close) * 10000,
                  Iloc(df, i).close)

\* Lines 75-80.
Trade(df, i) ==
    [date |-> Iloc(df, i).date, score |-> BtScore(RowView(df, i)),
     vr |-> RoundHalfEven(Iloc(df, i).vr.num * 100, Iloc(df, i).vr.den),
     ret |-> [n \in 1..Len(HOLD_DAYS) |-> HoldReturn(df, i, HOLD_DAYS[n])]]

\* Line 51 and line 74: the rows of the loop that trigger a buy.
BuyRows(df) ==
    {i \in FIRST_BAR..(Len(df) - MaxOfSeq(HOLD_DAYS) - 1) :
        BtEvaluate(RowView(df, i)).buy}

\* Lines 51-80: the trades appended by the loop, in row order.
TradesOf(df) ==
    [n \in 1..Cardinality(BuyRows(df)) |->
        Trade(df, CHOOSE i \in BuyRows(df) :
                      Cardinality({m \in BuyRows(df) : m < i}) = n - 1)]

\* run_single_backtest from line 47 on.
RunSingleBacktest(df) ==
    IF Len(df) < MIN_BARS THEN <<>>
    ELSE TradesOf(CalculateBacktestIndicators(df))

---------------------------------------------------------------------------
(* The backtest of one instrument.                                         *)

NumBars == 270    \* rows of the instrument's file

\* The 涨跌幅 column, in hundredths of a percent.
PctChange(prev, cur) == Num(RoundHalfEven((cur - prev) * 10000, prev))

\* A history of n bars that falls into bar t (0-based) after a flat year:
\* closes 12000, then 11800, 11600 and 10000 at t, then 10000 but for the
\* closes c3, c5, c10 of the bars 3, 5 and 10 after t.  Bar t + 1 dips to
\* dipLow intraday.  The five bars before t trade volPrior each and bar t
\* trades volAt.
CloseAt(k, t, c3, c5, c10) ==
    IF k < t - 2 THEN 12000
    ELSE IF k = t - 2 THEN 11800
    ELSE IF k = t - 1 THEN 11600
    ELSE IF k = t + 3 THEN c3
    ELSE IF k = t + 5 THEN c5
    ELSE IF k = t + 10 THEN c10
    ELSE 10000

History(n, t, c3, c5, c10, dipLow, volPrior, volAt) ==
    [k1 \in 1..n |->
        LET k == k1 - 1
            c == CloseAt(k, t, c3, c5, c10)
        IN  [date |-> k1,
             close |-> c,
             low |-> IF k = t + 1 THEN dipLow ELSE c - 100,
             pct |-> IF k = 0 THEN NaN
                     ELSE PctChange(CloseAt(k - 1, t, c3, c5, c10), c),
             turnover |-> 6000000,
             volume |-> IF k = t THEN volAt
                        ELSE IF k >= t - 5 /\ k < t THEN volPrior
                        ELSE 1000,
             j |-> IF k = t THEN Num(-5) ELSE Num(50)]]

Histories ==
    {History(n, t, c3, c5, c10, dipLow, volPrior, volAt) :
        n \in {MIN_BARS - 1, NumBars},
        t \in {100, 250, NumBars - 11},
        c3 \in {9000, 10000}, c5 \in {9800, 10500}, c10 \in {9000, 10000, 10500},
        dipLow \in {9400, 9900},
        volPrior \in {0, 1000}, volAt \in {0, 500}}

InitBacktest ==
    /\ bars \in Histories
    /\ btPc = "start"
    /\ trades = <<>>
    /\ day = 1
    /\ data = [f \in Files |-> NoFile]
    /\ ledgerFile = AbsentFile
    /\ reportFile = AbsentFile
    /\ pc = "idle"
    /\ NoRunState
    /\ admitTrace = <<>>
    /\ stopLoss = <<>>
    /\ ScoreIdle

\* run_single_backtest(file_path) on the instrument's file.
BacktestRun ==
    /\ btPc = "start"
    /\ btPc' = "done"
    /\ bars' = IF Len(bars) < MIN_BARS THEN bars
               ELSE CalculateBacktestIndicators(bars)
    /\ trades' = RunSingleBacktest(bars)
    /\ UNCHANGED <<liveVars, scoreVars>>

NextBacktest == BacktestRun

SpecBacktest == InitBacktest /\ [][NextBacktest]_vars

---------------------------------------------------------------------------
(* The scorers on single snapshots.                                        *)

Pending == [type |-> "pending"]

SnapGrid ==
    {[rsi |-> rsi, j |-> j, prevJ |-> prevJ, bias |-> bias, close |-> 10000,
      ma5 |-> ma5, low |-> 9000, turnover |-> turnover] :
        rsi \in {NaN, Num(30), Num(38), Num(70), Num(85)},
        j \in {NaN, Num(5), Num(10)},
        prevJ \in {NaN, Num(3), Num(20)},
        bias \in {NaN, Num(-4), Num(-3)},
        ma5 \in {NaN, Num(9500), Num(10500)},
        turnover \in {4000000, 6000000}}

Falling == <<Num(-120), Num(-80), Num(-10)>>
RowGrid ==
    {[pcts |-> pcts, rsi |-> rsi, j |-> j, ychg |-> ychg, bias |-> bias,
      vr |-> vr, turnover |-> turnover] :
        pcts \in {Falling, [Falling EXCEPT ![2] = NaN],
                  [Falling EXCEPT ![3] = Num(40)]},
        rsi \in {QNaN, Q(25, 1), Q(30, 1)},
        j \in {NaN, Num(-1), Num(0)},
        ychg \in {QNaN, Q(-16, 1), Q(-15, 1)},
        bias \in {QNaN, Q(-3, 1), Q(-5, 2)},
        vr \in {QNaN, QInf, Q(1, 2), Q(7, 10)},
        turnover \in {4000000, 6000000}}

InitScore ==
    /\ \/ snap \in SnapGrid /\ btRow = <<>>
       \/ snap = Quiet(10000) /\ btRow \in RowGrid
    /\ scored = Pending
    /\ btScored = Pending
    /\ day = 1
    /\ data = [f \in Files |-> NoFile]
    /\ ledgerFile = AbsentFile
    /\ reportFile = AbsentFile
    /\ pc = "idle"
    /\ NoRunState
    /\ admitTrace = <<>>
    /\ stopLoss = <<>>
    /\ BacktestIdle

\* analyze_single_file from line 117 on, for the snapshot.
ScoreLive ==
    /\ scored = Pending
    /\ scored' = AnalyzeSnapshot(snap)
    /\ UNCHANGED <<snap, btRow, btScored, liveVars, backtestVars>>

\* One iteration of the loop of run_single_backtest, lines 55-74.
ScoreBacktest ==
    /\ btScored = Pending
    /\ btRow # <<>>
    /\ btScored' = BtEvaluate(btRow)
    /\ UNCHANGED <<snap, btRow, scored, liveVars, backtestVars>>

NextScore == ScoreLive \/ ScoreBacktest

SpecScore == InitScore /\ [][NextScore]_vars

---------------------------------------------------------------------------
(* The claims about the scorers and the backtest.                          *)

\* The minimum low of the bars i+1..i+h.
MinLow(df, i, h) ==
    CHOOSE m \in {Iloc(df, k).low : k \in (i + 1)..(i + h)} :
        \A k \in (i + 1)..(i + h) : m <= Iloc(df, k).low

StopLossPercents == (-10)..(-1)

\* The return the claim states for the trade entered at row i, horizon h,
\* under the stop-loss sl (a percentage), in hundredths of a percent.
ClampedReturn(df, i, h, sl) ==
    IF MinLow(df, i, h) * 100 < Iloc(df, i).close * (100 + sl)
    THEN sl * 100
    ELSE RoundHalfEven((Iloc(df, i + h).close - Iloc(df, i).close) * 10000,
                       Iloc(df, i).close)

RiskRuleTakesPrecedence ==
    (scored # Pending /\ snap.turnover >= MIN_TURNOVER /\ Gt(snap.rsi, 80)) =>
        scored.type = "extreme_overbought"

\* The snapshot with every undefined indicator replaced by a defined value
\* that satisfies none of the conditions referring to it.
DefinedSnap(s) ==
    LET j == IF s.j.nan THEN Num(10) ELSE s.j
    IN  [s EXCEPT !.rsi = IF s.rsi.nan THEN Num(50) ELSE s.rsi,
                  !.j = j,
                  !.prevJ = IF s.j.nan \/ s.prevJ.nan THEN j ELSE s.prevJ,
                  !.bias = IF s.bias.nan THEN Num(0) ELSE s.bias,
                  !.ma5 = IF s.ma5.nan THEN Num(s.close) ELSE s.ma5]

DefinedQ(a, v) == IF a.nan \/ a.inf THEN Q(v, 1) ELSE a
DefinedRow(r) ==
    [r EXCEPT !.pcts = [n \in 1..3 |-> IF r.pcts[n].nan THEN Num(0) ELSE r.pcts[n]],
              !.rsi = DefinedQ(r.rsi, 50),
              !.j = IF r.j.nan THEN Num(0) ELSE r.j,
              !.ychg = DefinedQ(r.ychg, 0),
              !.bias = DefinedQ(r.bias, 0),
              !.vr = DefinedQ(r.vr, 1)]

\* C8: in the live scorer and in the backtest scorer, a condition on an
\* indicator that is undefined at the bar counts as not satisfied and adds 0
\* points: the category, the score and the buy decision are those of the
\* same bar with the conditions on the undefined indicators unsatisfied, and
\* the instrument is not dropped for it.
UndefinedAddsNothing ==
    /\ scored # Pending =>
          /\ scored.type = AnalyzeSnapshot(DefinedSnap(snap)).type
          /\ scored.type # "none" =>
                scored.score = AnalyzeSnapshot(DefinedSnap(snap)).score
    /\ btScored # Pending => btScored = BtEvaluate(DefinedRow(btRow))

\* A snapshot whose RSI is undefined was scored on its two defined
\* conditions and emitted with their 65 points.
ScoredWithUndefinedRsi ==
    /\ scored # Pending
    /\ snap.rsi.nan
    /\ scored.type = "oversold_rebound"
    /\ scored.score = 65

\* C9: at every bar at which the mean volume of the prior 5 bars is 0,
\* volumeRatio is defined and equals 0, for any current volume.
VolumeRatioZeroFallback ==
    btPc = "done" =>
        \A k \in 6..Len(bars) :
            ("vr" \in DOMAIN bars[k] /\ VolSum5(bars, k - 1) = 0) =>
                /\ ~bars[k].vr.nan
                /\ ~bars[k].vr.inf
                /\ bars[k].vr.num = 0

=============================================================================
